---- MODULE Spec2Model ----
(***************************************************************************)
(* A model of tools/ml/train_ranker.py: one run of main(), from reading    *)
(* the JSONL input to writing ranker.onnx, ranker_metadata.json and        *)
(* active_model.json, and the PairwiseRankingDataset constructor as a unit. *)
(*                                                                         *)
(* Abstractions:                                                            *)
(*  - a vector is a sequence of small integers; np.array(.., float32) is    *)
(*    exact on them, so the conversion keeps the sequence as it is;         *)
(*  - an input line is blank, undecodable, or carries the JSON value it     *)
(*    decodes to; a JSON value is tagged with its type;                     *)
(*  - the network's weights are the number of optimizer steps applied to    *)
(*    them plus a flag telling whether they are still finite;               *)
(*  - an accuracy is an integer number of 1/AccScale units;                 *)
(*  - a file under its final name is absent, partial (opened for writing,   *)
(*    not yet fully written and closed) or complete.                        *)
(***************************************************************************)
EXTENDS Integers, Sequences, FiniteSets, TLC

\* ---------------------------------------------------------------- constants
DEFAULT_EMBEDDING_DIM == 1536

MIN_PAIRS_REQUIRED == 10

\* DEFAULT_MARGIN = 0.5; scores, margins and losses are counted in halves
DEFAULT_MARGIN == 1

FEATURE_NAMES ==
  <<"clarity", "impact", "relevance", "readability", "keyword_density", "completeness">>

\* ------------------------------------------------------------------- bounds
\* --metrics-dim and --embedding-dim of the modelled runs
CfgMetricsDim == 2

CfgEmbeddingDim == 2

\* --batch-size of the modelled runs
CfgBatchSize == 5

\* --epochs ranges over 0..MaxEpochs
MaxEpochs == 2

\* accuracies are k/AccScale, k in 0..AccScale
AccScale == 2

\* an input file has MIN_PAIRS_REQUIRED-1 .. MIN_PAIRS_REQUIRED+MaxExtraLines lines
MaxExtraLines == 1

\* at most MaxOdd lines of an input file differ from the well-formed line
MaxOdd == 1

\* the constructor as a unit is applied to lists of at most MaxRows rows
MaxRows == 2

\* --val-split of the modelled runs, in percent
ValSplits == {0, 20}

\* ------------------------------------------------------------------ vectors
Zeros(n) == [i \in 1..n |-> 0]

Ones(n) == [i \in 1..n |-> 1]

\* ------------------------------------------------------------ JSON and rows
\* dict.get(key, default)
Get(fields, key, default) == IF key \in DOMAIN fields THEN fields[key] ELSE default

DictRow(fields) == [type |-> "dict", fields |-> fields]

\* a JSON value that is no object (a list): row.get raises AttributeError
ListRow == [type |-> "list", fields |-> [items |-> <<>>]]

\* one side of a row: the fields it contributes, keyed by the side's prefix
MetricsLens == {CfgMetricsDim - 1, CfgMetricsDim, CfgMetricsDim + 1}

EmbeddingLens == {0, CfgEmbeddingDim, CfgEmbeddingDim + 1}

GoodRow(label) ==
  DictRow([a_metrics |-> Ones(CfgMetricsDim), b_metrics |-> Ones(CfgMetricsDim),
           a_embedding |-> Ones(CfgEmbeddingDim), b_embedding |-> Ones(CfgEmbeddingDim),
           label |-> label])

\* rows that differ from the well-formed row on one side
RowsOddA ==
  { DictRow([a_metrics |-> Ones(m), b_metrics |-> Ones(CfgMetricsDim),
             a_embedding |-> Ones(e), b_embedding |-> Ones(CfgEmbeddingDim),
             label |-> 1]) : m \in MetricsLens, e \in EmbeddingLens }

RowsOddB ==
  { DictRow([a_metrics |-> Ones(CfgMetricsDim), b_metrics |-> Ones(m),
             a_embedding |-> Ones(CfgEmbeddingDim), b_embedding |-> Ones(e),
             label |-> -1]) : m \in MetricsLens, e \in EmbeddingLens }

\* rows with a key left out
RowsMissingKey ==
  { DictRow([b_metrics |-> Ones(CfgMetricsDim),
             a_embedding |-> Ones(CfgEmbeddingDim), b_embedding |-> Ones(CfgEmbeddingDim),
             label |-> 0]),
    DictRow([a_metrics |-> Ones(CfgMetricsDim), b_metrics |-> Ones(CfgMetricsDim),
             b_embedding |-> Ones(CfgEmbeddingDim), label |-> 0]),
    DictRow([a_metrics |-> Ones(CfgMetricsDim), b_metrics |-> Ones(CfgMetricsDim)]) }

UnitRows == RowsOddA \cup RowsOddB \cup RowsMissingKey \cup {ListRow}

\* ------------------------------------------------ PairwiseRankingDataset
\* the loop body with the length test on a_metrics alone
RowSamplesIgnoreB(row, metrics_dim, embedding_dim) ==
  IF row.type # "dict"
  THEN <<>>
  ELSE LET a_metrics == Get(row.fields, "a_metrics", <<>>)
           b_metrics == Get(row.fields, "b_metrics", <<>>)
           a_embedding == Get(row.fields, "a_embedding", <<>>)
           b_embedding == Get(row.fields, "b_embedding", <<>>)
           label == Get(row.fields, "label", 0)
       IN IF Len(a_metrics) # metrics_dim
          THEN <<>>
          ELSE << [a_metrics |-> a_metrics,
                   b_metrics |-> b_metrics,
                   a_embedding |-> IF a_embedding # <<>> THEN a_embedding
                                   ELSE Zeros(embedding_dim),
                   b_embedding |-> IF b_embedding # <<>> THEN b_embedding
                                   ELSE Zeros(embedding_dim),
                   label |-> label] >>

\* the body of the loop over rows: the sample appended for the row, if any
RowSamples(row, metrics_dim, embedding_dim) ==
  IF row.type # "dict"
  THEN <<>>
  ELSE LET a_metrics == Get(row.fields, "a_metrics", <<>>)
           b_metrics == Get(row.fields, "b_metrics", <<>>)
           a_embedding == Get(row.fields, "a_embedding", <<>>)
           b_embedding == Get(row.fields, "b_embedding", <<>>)
           label == Get(row.fields, "label", 0)
       IN IF Len(a_metrics) # metrics_dim \/ Len(b_metrics) # metrics_dim
          THEN <<>>
          ELSE << [a_metrics |-> a_metrics,
                   b_metrics |-> b_metrics,
                   a_embedding |-> IF a_embedding # <<>> THEN a_embedding
                                   ELSE Zeros(embedding_dim),
                   b_embedding |-> IF b_embedding # <<>> THEN b_embedding
                                   ELSE Zeros(embedding_dim),
                   label |-> label] >>

RECURSIVE DatasetRows(_, _, _)
DatasetRows(data, metrics_dim, embedding_dim) ==
  IF data = <<>> THEN <<>>
  ELSE RowSamples(Head(data), metrics_dim, embedding_dim)
       \o DatasetRows(Tail(data), metrics_dim, embedding_dim)

PairwiseRankingDataset(data, metrics_dim, embedding_dim) ==
  LET rows == DatasetRows(data, metrics_dim, embedding_dim)
  IN [built |-> TRUE,
      data |-> rows,
      metrics_dim |-> metrics_dim,
      embedding_dim |-> embedding_dim,
      feature_names |-> IF rows # <<>> THEN FEATURE_NAMES ELSE <<>>]

\* `dataset` before the constructor has run
NoDataset ==
  [built |-> FALSE, data |-> <<>>, metrics_dim |-> 0, embedding_dim |-> 0,
   feature_names |-> <<>>]

\* ------------------------------------------------------------- input files
BlankLine == [blank |-> TRUE, decodable |-> FALSE, value |-> ListRow]

UndecodableLine == [blank |-> FALSE, decodable |-> FALSE, value |-> ListRow]

JsonLine(row) == [blank |-> FALSE, decodable |-> TRUE, value |-> row]

GoodLine == JsonLine(GoodRow(1))

BadMetricsRow ==
  DictRow([a_metrics |-> Ones(CfgMetricsDim + 1), b_metrics |-> Ones(CfgMetricsDim),
           a_embedding |-> Ones(CfgEmbeddingDim), b_embedding |-> Ones(CfgEmbeddingDim),
           label |-> 1])

NoEmbeddingRow ==
  DictRow([a_metrics |-> Ones(CfgMetricsDim), b_metrics |-> Ones(CfgMetricsDim),
           label |-> -1])

LongEmbeddingRow ==
  DictRow([a_metrics |-> Ones(CfgMetricsDim), b_metrics |-> Ones(CfgMetricsDim),
           a_embedding |-> Ones(CfgEmbeddingDim + 1), b_embedding |-> Ones(CfgEmbeddingDim),
           label |-> 1])

OddLines ==
  {BlankLine, UndecodableLine, JsonLine(BadMetricsRow), JsonLine(NoEmbeddingRow),
   JsonLine(LongEmbeddingRow)}

\* the files of n lines of which at most k are odd
RECURSIVE FilesOf(_, _)
FilesOf(n, k) ==
  IF n = 0 THEN {<<>>}
  ELSE {Append(f, GoodLine) : f \in FilesOf(n - 1, k)}
       \cup (IF k = 0 THEN {}
             ELSE {Append(f, o) : f \in FilesOf(n - 1, k - 1), o \in OddLines})

RunFiles ==
  UNION {FilesOf(n, MaxOdd) :
           n \in (MIN_PAIRS_REQUIRED - 1)..(MIN_PAIRS_REQUIRED + MaxExtraLines)}

GoodFile == [i \in 1..MIN_PAIRS_REQUIRED |-> GoodLine]

Args(epochs, val_split) ==
  [epochs |-> epochs, batch_size |-> CfgBatchSize, val_split |-> val_split,
   metrics_dim |-> CfgMetricsDim, embedding_dim |-> CfgEmbeddingDim,
   margin |-> DEFAULT_MARGIN]

\* the runs modelled: every file under one configuration and an empty output
\* directory, and one well-formed file under every configuration, with the
\* output directory empty or holding the bundle of a previous run
Inputs ==
  {[exists |-> TRUE, file |-> f, args |-> Args(1, 20), prior |-> FALSE] : f \in RunFiles}
  \cup {[exists |-> TRUE, file |-> GoodFile, args |-> Args(e, v), prior |-> p] :
          e \in 0..MaxEpochs, v \in ValSplits, p \in BOOLEAN}
  \cup {[exists |-> FALSE, file |-> <<>>, args |-> Args(1, 20), prior |-> FALSE]}

\* the read loop of main: json.loads on every line that is not blank; the
\* first undecodable line raises out of the loop
RECURSIVE LoadLines(_, _)
LoadLines(lines, acc) ==
  IF lines = <<>> THEN [raised |-> FALSE, data |-> acc]
  ELSE IF Head(lines).blank THEN LoadLines(Tail(lines), acc)
  ELSE IF ~Head(lines).decodable THEN [raised |-> TRUE, data |-> acc]
  ELSE LoadLines(Tail(lines), Append(acc, Head(lines).value))

\* int(len(dataset) * val_split), exact for the lengths and ratios modelled
ValSize(n, val_split) == (n * val_split) \div 100

\* len(DataLoader) with drop_last = False
NumBatches(n, batch_size) == (n + batch_size - 1) \div batch_size

\* ------------------------------------------------------------- output files
InitialParams == [steps |-> 0, finite |-> TRUE]

AbsentModel == [st |-> "absent", by |-> "none", params |-> InitialParams]

AbsentMetadata == [st |-> "absent", by |-> "none", onnxValid |-> FALSE]

AbsentActive == [st |-> "absent", by |-> "none", model |-> "", metadata |-> ""]

PriorModel == [st |-> "complete", by |-> "prev", params |-> InitialParams]

PriorMetadata == [st |-> "complete", by |-> "prev", onnxValid |-> TRUE]

PriorActive ==
  [st |-> "complete", by |-> "prev", model |-> "ranker.onnx",
   metadata |-> "ranker_metadata.json"]

\* -------------------------------------------------------------------- state
\* a batch of scores and labels, and the metrics computed on it, before any is
NoBatch == [a_scores |-> <<>>, b_scores |-> <<>>, labels |-> <<>>]

NoMetrics ==
  [site |-> "none", loss |-> [num |-> 0, den |-> 1], acc |-> [num |-> 0, den |-> 1]]

VARIABLES
  input_exists, input_file, args,    \* the input path and the parsed arguments
  output_prior,                      \* did the output directory hold a bundle
  batch_in, metric_out,              \* one batch and the metrics computed on it
  data, dataset,                     \* main's decoded rows and its dataset
  train_size, val_size,              \* the sizes of the two partitions
  params,                            \* the live weights of `model`
  epoch, batch, total_loss,          \* loop counters, train_epoch's accumulator
  train_loss, val_acc,               \* the last epoch's results
  best_val_acc, best_epoch,
  epochLog,                          \* history: one record per finished epoch
  onnx_valid, verify_error,          \* verify_onnx's result; history: did it raise
  model_file, metadata_file, active_file,
  pc, exit_code, fault               \* position, process exit, what ended the run

vars ==
  <<input_exists, input_file, args, output_prior, batch_in, metric_out, data, dataset, train_size, val_size, params,
    epoch, batch, total_loss, train_loss, val_acc, best_val_acc, best_epoch,
    epochLog, onnx_valid, verify_error, model_file, metadata_file, active_file,
    pc, exit_code, fault>>

\* what no step of main changes: its inputs, and the batch metrics of the
\* functions called as units
inputVars ==
  <<input_exists, input_file, args, output_prior, batch_in, metric_out>>

loadVars == <<data, dataset, train_size, val_size>>

trainVars ==
  <<params, epoch, batch, total_loss, train_loss, val_acc, best_val_acc,
    best_epoch, epochLog>>

fileVars == <<model_file, metadata_file, active_file>>

verifyVars == <<onnx_valid, verify_error>>

InitRest ==
  /\ batch_in = NoBatch
  /\ metric_out = NoMetrics
  /\ data = <<>>
  /\ dataset = NoDataset
  /\ train_size = 0
  /\ val_size = 0
  /\ params = InitialParams
  /\ epoch = 0
  /\ batch = 0
  /\ total_loss = "finite"
  /\ train_loss = "finite"
  /\ val_acc = 0
  /\ best_val_acc = 0
  /\ best_epoch = 0
  /\ epochLog = <<>>
  /\ onnx_valid = FALSE
  /\ verify_error = "none"
  /\ exit_code = "none"
  /\ fault = "none"

Init ==
  /\ \E in \in Inputs :
       /\ input_exists = in.exists
       /\ input_file = in.file
       /\ args = in.args
       /\ output_prior = in.prior
       /\ model_file = IF in.prior THEN PriorModel ELSE AbsentModel
       /\ metadata_file = IF in.prior THEN PriorMetadata ELSE AbsentMetadata
       /\ active_file = IF in.prior THEN PriorActive ELSE AbsentActive
  /\ pc = "start"
  /\ InitRest

\* the process ends: sys.exit(code), or an exception nothing catches (exit 1)
Exits(code, why) ==
  /\ pc' = "exited"
  /\ exit_code' = code
  /\ fault' = why

\* ------------------------------------------------------------- main: loading
\* os.path.exists(args.input)
CheckInput ==
  /\ pc = "start"
  /\ IF input_exists
     THEN pc' = "load" /\ UNCHANGED <<exit_code, fault>>
     ELSE Exits("1", "SystemExit")
  /\ UNCHANGED <<inputVars, loadVars, trainVars, fileVars, verifyVars>>

LoadData ==
  /\ pc = "load"
  /\ LET r == LoadLines(input_file, <<>>)
     IN /\ data' = r.data
        /\ IF r.raised
           THEN Exits("1", "JSONDecodeError")
           ELSE pc' = "check_min" /\ UNCHANGED <<exit_code, fault>>
  /\ UNCHANGED <<inputVars, dataset, train_size, val_size, trainVars, fileVars,
                 verifyVars>>

CheckMinPairs ==
  /\ pc = "check_min"
  /\ IF Len(data) < MIN_PAIRS_REQUIRED
     THEN Exits("1", "SystemExit")
     ELSE pc' = "create_dataset" /\ UNCHANGED <<exit_code, fault>>
  /\ UNCHANGED <<inputVars, loadVars, trainVars, fileVars, verifyVars>>

\* dataset = PairwiseRankingDataset(data, args.metrics_dim): embedding_dim is
\* left to its default
CreateDataset ==
  /\ pc = "create_dataset"
  /\ dataset' = PairwiseRankingDataset(data, args.metrics_dim, DEFAULT_EMBEDDING_DIM)
  /\ pc' = "split"
  /\ UNCHANGED <<inputVars, data, train_size, val_size, trainVars, fileVars,
                 verifyVars, exit_code, fault>>

SplitDataset ==
  /\ pc = "split"
  /\ val_size' = ValSize(Len(dataset.data), args.val_split)
  /\ train_size' = Len(dataset.data) - ValSize(Len(dataset.data), args.val_split)
  /\ pc' = IF args.epochs = 0 THEN "final_eval" ELSE "train"
  /\ UNCHANGED <<inputVars, data, dataset, trainVars, fileVars, verifyVars,
                 exit_code, fault>>

\* ------------------------------------------------------------ main: training
LossKinds == {"finite", "nonfinite"}

\* total_loss += loss.item(): a NaN or an infinity stays in the sum
AddLoss(total, loss) ==
  IF total = "finite" /\ loss = "finite" THEN "finite" ELSE "nonfinite"

\* loss.backward(), clip_grad_norm_, optimizer.step(): the step is taken
\* whatever the loss is; a non-finite loss gives non-finite gradients (the
\* clipping coefficient of a non-finite norm is NaN or 0 times infinity) and
\* the step writes them into the weights
OptimizerStep(p, loss) ==
  [steps |-> p.steps + 1, finite |-> p.finite /\ loss = "finite"]

\* one iteration of train_epoch's loop over the batches
TrainBatch ==
  /\ pc = "train"
  /\ batch < NumBatches(train_size, args.batch_size)
  /\ \E loss \in LossKinds :
       /\ ~params.finite => loss = "nonfinite"
       /\ params' = OptimizerStep(params, loss)
       /\ total_loss' = AddLoss(total_loss, loss)
  /\ batch' = batch + 1
  /\ UNCHANGED <<inputVars, loadVars, epoch, train_loss, val_acc, best_val_acc,
                 best_epoch, epochLog, fileVars, verifyVars, pc, exit_code, fault>>

\* the comparison with >= in place of >
ImprovesOrTies(acc, best) == acc >= best

\* if val_acc > best_val_acc
Improves(acc, best) == acc > best

\* the rest of one pass of main's loop: train_epoch returns its means, the
\* model is evaluated on the validation partition, the best is tracked
EndEpoch ==
  /\ pc = "train"
  /\ batch = NumBatches(train_size, args.batch_size)
  /\ IF NumBatches(train_size, args.batch_size) = 0
        \/ NumBatches(val_size, args.batch_size) = 0
     THEN \* total_loss / len(dataloader) with no batches
          /\ Exits("1", "ZeroDivisionError")
          /\ UNCHANGED <<epoch, batch, total_loss, train_loss, val_acc,
                         best_val_acc, best_epoch, epochLog>>
     ELSE \E acc \in 0..AccScale :
            /\ train_loss' = total_loss
            /\ val_acc' = acc
            /\ best_val_acc' = IF Improves(acc, best_val_acc) THEN acc
                               ELSE best_val_acc
            /\ best_epoch' = IF Improves(acc, best_val_acc) THEN epoch + 1
                             ELSE best_epoch
            /\ epochLog' = Append(epochLog, [train_loss |-> total_loss,
                                             val_acc |-> acc, params |-> params])
            /\ epoch' = epoch + 1
            /\ batch' = 0
            /\ total_loss' = "finite"
            /\ pc' = IF epoch + 1 = args.epochs THEN "final_eval" ELSE "train"
            /\ UNCHANGED <<exit_code, fault>>
  /\ UNCHANGED <<inputVars, loadVars, params, fileVars, verifyVars>>

\* the final evaluation, the dataset hash and os.makedirs: none of them
\* changes the weights or writes one of the three files
FinalEvaluation ==
  /\ pc = "final_eval"
  /\ pc' = "export"
  /\ UNCHANGED <<inputVars, loadVars, trainVars, fileVars, verifyVars, exit_code,
                 fault>>

\* ----------------------------------------------------- main: export, verify
\* export_onnx hands the final path to torch.onnx.export: either the
\* conversion raises before the file is opened, or the file is opened for
\* writing under its final name
ExportOnnx ==
  /\ pc = "export"
  /\ \E converted \in BOOLEAN :
       IF converted
       THEN /\ model_file' = [st |-> "partial", by |-> "run", params |-> params]
            /\ pc' = "export_write"
            /\ UNCHANGED <<exit_code, fault>>
       ELSE /\ Exits("1", "export:RuntimeError")
            /\ UNCHANGED model_file
  /\ UNCHANGED <<inputVars, loadVars, trainVars, metadata_file, active_file,
                 verifyVars>>

\* the serialized graph is written and the file closed, or the write raises
ExportWrite ==
  /\ pc = "export_write"
  /\ \E written \in BOOLEAN :
       IF written
       THEN /\ model_file' = [model_file EXCEPT !.st = "complete"]
            /\ pc' = "verify"
            /\ UNCHANGED <<exit_code, fault>>
       ELSE /\ Exits("1", "export:OSError")
            /\ UNCHANGED model_file
  /\ UNCHANGED <<inputVars, loadVars, trainVars, metadata_file, active_file,
                 verifyVars>>

\* a verifier whose handler returns True as well
VerifyAlwaysTrue(raised) == TRUE

\* verify_onnx: True at the end of the try block, False from the handler

VerifyReturns(raised) == ~raised

VerifyOnnx ==
  /\ pc = "verify"
  /\ \E raised \in BOOLEAN :
       /\ verify_error' = IF raised THEN "raised" ELSE "ok"
       /\ onnx_valid' = VerifyReturns(raised)
  /\ pc' = "metadata_open"
  /\ UNCHANGED <<inputVars, loadVars, trainVars, fileVars, exit_code, fault>>

\* ------------------------------------------------ main: metadata and pointer
\* open(metadata_path, "w"): the file is created or truncated
MetadataOpen ==
  /\ pc = "metadata_open"
  /\ \E opened \in BOOLEAN :
       IF opened
       THEN /\ metadata_file' = [st |-> "partial", by |-> "run",
                                 onnxValid |-> onnx_valid]
            /\ pc' = "metadata_dump"
            /\ UNCHANGED <<exit_code, fault>>
       ELSE /\ Exits("1", "metadata:OSError")
            /\ UNCHANGED metadata_file
  /\ UNCHANGED <<inputVars, loadVars, trainVars, model_file, active_file,
                 verifyVars>>

\* the metadata write with its error swallowed: main goes on to the pointer
MetadataDumpIgnoresError ==
  /\ pc = "metadata_dump"
  /\ \E written \in BOOLEAN :
       metadata_file' = IF written THEN [metadata_file EXCEPT !.st = "complete"]
                        ELSE metadata_file
  /\ pc' = "active_open"
  /\ UNCHANGED <<inputVars, loadVars, trainVars, model_file, active_file,
                 verifyVars, exit_code, fault>>

\* json.dump(metadata, f, indent=2) and the close at the end of the with block
MetadataDump ==
  /\ pc = "metadata_dump"
  /\ \E written \in BOOLEAN :
       IF written
       THEN /\ metadata_file' = [metadata_file EXCEPT !.st = "complete"]
            /\ pc' = "active_open"
            /\ UNCHANGED <<exit_code, fault>>
       ELSE /\ Exits("1", "metadata:OSError")
            /\ UNCHANGED metadata_file
  /\ UNCHANGED <<inputVars, loadVars, trainVars, model_file, active_file,
                 verifyVars>>

\* open(active_path, "w")
ActiveOpen ==
  /\ pc = "active_open"
  /\ \E opened \in BOOLEAN :
       IF opened
       THEN /\ active_file' = [st |-> "partial", by |-> "run",
                               model |-> "ranker.onnx",
                               metadata |-> "ranker_metadata.json"]
            /\ pc' = "active_dump"
            /\ UNCHANGED <<exit_code, fault>>
       ELSE /\ Exits("1", "active:OSError")
            /\ UNCHANGED active_file
  /\ UNCHANGED <<inputVars, loadVars, trainVars, model_file, metadata_file,
                 verifyVars>>

\* json.dump(active_config, f, indent=2), the close, the closing prints and
\* the return from main
ActiveDump ==
  /\ pc = "active_dump"
  /\ \E written \in BOOLEAN :
       IF written
       THEN /\ active_file' = [active_file EXCEPT !.st = "complete"]
            /\ Exits("0", "none")
       ELSE /\ Exits("1", "active:OSError")
            /\ UNCHANGED active_file
  /\ UNCHANGED <<inputVars, loadVars, trainVars, model_file, metadata_file,
                 verifyVars>>

\* an external interrupt ends the process wherever it is
Interrupt ==
  /\ pc \notin {"exited", "unit", "unit_done"}
  /\ Exits("signal", "KeyboardInterrupt")
  /\ UNCHANGED <<inputVars, loadVars, trainVars, fileVars, verifyVars>>

Next ==
  \/ CheckInput
  \/ LoadData
  \/ CheckMinPairs
  \/ CreateDataset
  \/ SplitDataset
  \/ TrainBatch
  \/ EndEpoch
  \/ FinalEvaluation
  \/ ExportOnnx
  \/ ExportWrite
  \/ VerifyOnnx
  \/ MetadataOpen
  \/ MetadataDump
  \/ ActiveOpen
  \/ ActiveDump
  \/ Interrupt

Spec == Init /\ [][Next]_vars

\* ------------------------------------------- the constructor called as a unit
RECURSIVE RowLists(_)
RowLists(n) ==
  IF n = 0 THEN {<<>>}
  ELSE RowLists(n - 1)
       \cup {Append(l, r) : l \in {x \in RowLists(n - 1) : Len(x) = n - 1},
                            r \in UnitRows}

InitDataset ==
  /\ input_exists = TRUE
  /\ input_file = <<>>
  /\ args = Args(1, 20)
  /\ output_prior = FALSE
  /\ batch_in = NoBatch
  /\ metric_out = NoMetrics
  /\ model_file = AbsentModel
  /\ metadata_file = AbsentMetadata
  /\ active_file = AbsentActive
  /\ pc = "unit"
  /\ data \in RowLists(MaxRows)
  /\ dataset = NoDataset
  /\ train_size = 0
  /\ val_size = 0
  /\ params = InitialParams
  /\ epoch = 0
  /\ batch = 0
  /\ total_loss = "finite"
  /\ train_loss = "finite"
  /\ val_acc = 0
  /\ best_val_acc = 0
  /\ best_epoch = 0
  /\ epochLog = <<>>
  /\ onnx_valid = FALSE
  /\ verify_error = "none"
  /\ exit_code = "none"
  /\ fault = "none"

\* PairwiseRankingDataset(data, metrics_dim, embedding_dim) with both
\* dimensions passed by the caller
ConstructDataset ==
  /\ pc = "unit"
  /\ dataset' = PairwiseRankingDataset(data, args.metrics_dim, args.embedding_dim)
  /\ pc' = "unit_done"
  /\ UNCHANGED <<inputVars, data, train_size, val_size, trainVars, fileVars,
                 verifyVars, exit_code, fault>>

NextDataset == ConstructDataset

SpecDataset == InitDataset /\ [][NextDataset]_vars

\* =================================================================== claims
WrittenByRun(f) == f.by = "run"

NoRunFiles ==
  ~WrittenByRun(model_file) /\ ~WrittenByRun(metadata_file) /\ ~WrittenByRun(active_file)

CompleteByRun(f) == f.by = "run" /\ f.st = "complete"

\* C1: when the dataset left after row filtering has fewer than
\* MIN_PAIRS_REQUIRED samples, no optimizer step is taken, no output file is
\* written by the run and the run does not exit 0.
C1_InsufficientValidAborts ==
  dataset.built /\ Len(dataset.data) < MIN_PAIRS_REQUIRED
    => params.steps = 0 /\ NoRunFiles /\ exit_code # "0"

\* C2: the parameters in the exported model file are those at the end of
\* best_epoch.
C2_ExportedIsBestSnapshot ==
  CompleteByRun(model_file) /\ best_epoch > 0
    => model_file.params = epochLog[best_epoch].params

\* the rows of the lines that are neither blank nor undecodable, in order
DecodableRows(lines) ==
  LET kept == SelectSeq(lines, LAMBDA l : ~l.blank /\ l.decodable)
  IN [i \in 1..Len(kept) |-> kept[i].value]

\* C3: an undecodable line never ends the run, and the rows loaded are the
\* decodable non-blank lines in order.
C3_UndecodableLineSkipped ==
  /\ fault # "JSONDecodeError"
  /\ pc = "check_min" => data = DecodableRows(input_file)

\* C4: after a failed export the run has exited non-zero and the output
\* directory holds no file, partial or complete, written by this run.
C4_ExportFailureLeavesNothing ==
  fault \in {"export:RuntimeError", "export:OSError"}
    => exit_code = "1" /\ NoRunFiles

\* C5: a verification that raised is not what ends the run: afterwards the
\* run is at the metadata or pointer write, or has exited 0 with the metadata
\* (onnxValid = false) and the pointer complete, or was ended by a later write
\* error or an interrupt; onnx_valid, and onnxValid in the metadata written,
\* are true exactly when the verification raised no error.
C5_VerificationNonFatal ==
  /\ verify_error # "none" => onnx_valid = (verify_error = "ok")
  /\ WrittenByRun(metadata_file) => metadata_file.onnxValid = (verify_error = "ok")
  /\ verify_error = "raised" /\ pc # "exited"
       => pc \in {"metadata_open", "metadata_dump", "active_open", "active_dump"}
  /\ verify_error = "raised" /\ pc = "exited"
       => \/ /\ exit_code = "0"
             /\ CompleteByRun(metadata_file)
             /\ ~metadata_file.onnxValid
             /\ CompleteByRun(active_file)
          \/ fault \in {"metadata:OSError", "active:OSError", "KeyboardInterrupt"}

C5_Witness ==
  /\ verify_error = "raised"
  /\ exit_code = "0"
  /\ CompleteByRun(metadata_file)
  /\ ~metadata_file.onnxValid
  /\ CompleteByRun(active_file)

NonFiniteLossSeen ==
  \/ total_loss = "nonfinite"
  \/ \E i \in DOMAIN epochLog : epochLog[i].train_loss = "nonfinite"

\* C6: once a batch loss was NaN or infinite, no epoch is completed, no output
\* file is written by the run and the run does not exit 0.
C6_NonFiniteLossAborts ==
  NonFiniteLossSeen
    => /\ \A i \in DOMAIN epochLog : epochLog[i].train_loss = "finite"
       /\ NoRunFiles
       /\ exit_code # "0"

\* C7: each of the three files under its final name is absent or complete in
\* every state, and is written by the run only after the training loop ended.
C7_FilesAtomic ==
  /\ model_file.st \in {"absent", "complete"}
  /\ metadata_file.st \in {"absent", "complete"}
  /\ active_file.st \in {"absent", "complete"}
  /\ ~NoRunFiles => epoch = args.epochs

\* the largest of 0 and the validation accuracies logged
MaxValAcc(log) ==
  LET accs == {0} \cup {log[i].val_acc : i \in DOMAIN log}
  IN CHOOSE m \in accs : \A a \in accs : a <= m

\* the first epoch whose validation accuracy is m
FirstEpochAt(log, m) ==
  CHOOSE i \in DOMAIN log :
    log[i].val_acc = m /\ \A j \in 1..(i - 1) : log[j].val_acc # m

\* an epoch ends whose validation accuracy equals the best so far
TieEpoch == epochLog' # epochLog /\ val_acc' = best_val_acc

\* C8 as amended: after every epoch best_val_acc is the largest of 0 and the
\* validation accuracies so far; best_epoch is the first epoch that reached it
\* when it exceeds 0, and 0 when no validation accuracy exceeded 0; an epoch
\* that ties the best changes neither.
C8_BestIsRunningMax ==
  /\ [](/\ best_val_acc = MaxValAcc(epochLog)
        /\ best_epoch = IF MaxValAcc(epochLog) > 0
                        THEN FirstEpochAt(epochLog, MaxValAcc(epochLog))
                        ELSE 0)
  /\ [][TieEpoch => UNCHANGED <<best_val_acc, best_epoch>>]_vars

\* C8 as stated: best_epoch is the first epoch that reached the maximum,
\* whatever the maximum is.
C8_BestEpochIsFirstMax ==
  epochLog # <<>>
    => /\ best_val_acc = MaxValAcc(epochLog)
       /\ best_epoch = FirstEpochAt(epochLog, MaxValAcc(epochLog))

C8_Witness ==
  /\ Len(epochLog) = 2
  /\ epochLog[1].val_acc > 0
  /\ epochLog[2].val_acc = epochLog[1].val_acc
  /\ best_epoch = 1
  /\ best_val_acc = epochLog[1].val_acc

\* C9: every sample of the dataset main builds has both embeddings of length
\* args.embedding_dim.
C9_EmbeddingsHaveConfiguredDim ==
  dataset.built
    => \A i \in DOMAIN dataset.data :
         /\ Len(dataset.data[i].a_embedding) = args.embedding_dim
         /\ Len(dataset.data[i].b_embedding) = args.embedding_dim

WrongMetricsLength(row, metrics_dim) ==
  \/ Len(Get(row.fields, "a_metrics", <<>>)) # metrics_dim
  \/ Len(Get(row.fields, "b_metrics", <<>>)) # metrics_dim

\* C10: for a list of rows that are all JSON objects with numeric vectors, the
\* constructed dataset holds, in input order, exactly the rows whose a_metrics
\* and b_metrics both have length metrics_dim; its length is the number of
\* rows minus the number of rows with a wrong metrics length.
C10_MetricsDimRejection ==
  pc = "unit_done" /\ (\A i \in DOMAIN data : data[i].type = "dict")
    => LET kept == SelectSeq(data, LAMBDA r : ~WrongMetricsLength(r, args.metrics_dim))
           wrong == {i \in DOMAIN data : WrongMetricsLength(data[i], args.metrics_dim)}
       IN /\ Len(dataset.data) = Len(data) - Cardinality(wrong)
          /\ \A i \in DOMAIN kept :
               /\ dataset.data[i].a_metrics = kept[i].fields.a_metrics
               /\ dataset.data[i].b_metrics = kept[i].fields.b_metrics
               /\ dataset.data[i].label = Get(kept[i].fields, "label", 0)

C10_Witness ==
  /\ pc = "unit_done"
  /\ Len(data) = 2
  /\ \A i \in DOMAIN data : data[i].type = "dict"
  /\ Len(Get(data[1].fields, "b_metrics", <<>>)) # args.metrics_dim
  /\ ~WrongMetricsLength(data[2], args.metrics_dim)
  /\ Len(dataset.data) = 1
  /\ dataset.data[1].label = Get(data[2].fields, "label", 0)

\* C13: in a run that started with an empty output directory, whenever
\* active_model.json exists (even partially written) the model file and the
\* metadata file it names are complete; the run writes the metadata only once
\* the model is complete and the pointer only once the metadata is complete,
\* and never writes the pointer after a failed export or metadata write.
C13_PointerImpliesBundle ==
  /\ ~output_prior /\ active_file.st # "absent"
       => /\ model_file.st = "complete"
          /\ metadata_file.st = "complete"
          /\ active_file.model = "ranker.onnx"
          /\ active_file.metadata = "ranker_metadata.json"
  /\ WrittenByRun(metadata_file) => CompleteByRun(model_file)
  /\ WrittenByRun(active_file)
       => /\ CompleteByRun(model_file)
          /\ CompleteByRun(metadata_file)
          /\ fault \notin {"export:RuntimeError", "export:OSError", "metadata:OSError"}

C13_Witness ==
  /\ ~output_prior
  /\ active_file.st = "partial"
  /\ CompleteByRun(model_file)
  /\ CompleteByRun(metadata_file)

\* ------------------------------------------ loss and accuracy of one batch
\* a batch holds at most MaxBatch samples
MaxBatch == 2

\* scores range over -MaxScore..MaxScore halves
MaxScore == 1

Scores == (-MaxScore)..MaxScore

Labels == {-1, 0, 1}

\* --margin of the modelled calls, in halves: 0.5 and 1.0
Margins == {DEFAULT_MARGIN, DEFAULT_MARGIN + 1}

Batches ==
  UNION {[a_scores : [1..n -> Scores], b_scores : [1..n -> Scores],
          labels : [1..n -> Labels]] : n \in 1..MaxBatch}

\* nn.functional.relu
Relu(x) == IF x > 0 THEN x ELSE 0

RECURSIVE SumSeq(_)
SumSeq(xs) == IF xs = <<>> THEN 0 ELSE Head(xs) + SumSeq(Tail(xs))

\* tensor.mean(), kept as the fraction num/den
Mean(xs) == [num |-> SumSeq(xs), den |-> Len(xs)]

margin_ranking_loss(a_scores, b_scores, labels, margin) ==
  Mean([i \in 1..Len(labels) |->
          Relu(margin - labels[i] * (a_scores[i] - b_scores[i]))])

compute_accuracy(a_scores, b_scores, labels) ==
  Mean([i \in 1..Len(labels) |->
          IF (a_scores[i] > b_scores[i]) = (labels[i] > 0) THEN 1 ELSE 0])

InitMetrics ==
  /\ input_exists = TRUE
  /\ input_file = <<>>
  /\ args \in {[Args(1, 20) EXCEPT !.margin = m] : m \in Margins}
  /\ output_prior = FALSE
  /\ batch_in \in Batches
  /\ metric_out = NoMetrics
  /\ model_file = AbsentModel
  /\ metadata_file = AbsentMetadata
  /\ active_file = AbsentActive
  /\ pc = "unit_metric"
  /\ data = <<>>
  /\ dataset = NoDataset
  /\ train_size = 0
  /\ val_size = 0
  /\ params = InitialParams
  /\ epoch = 0
  /\ batch = 0
  /\ total_loss = "finite"
  /\ train_loss = "finite"
  /\ val_acc = 0
  /\ best_val_acc = 0
  /\ best_epoch = 0
  /\ epochLog = <<>>
  /\ onnx_valid = FALSE
  /\ verify_error = "none"
  /\ exit_code = "none"
  /\ fault = "none"

metricFrame ==
  <<input_exists, input_file, args, output_prior, batch_in, loadVars, trainVars,
    fileVars, verifyVars, exit_code, fault>>

\* the loss and the accuracy train_epoch computes on a batch: main hands it
\* args.margin and it hands margin on to margin_ranking_loss
TrainBatchMetrics ==
  /\ pc = "unit_metric"
  /\ metric_out' =
       [site |-> "train",
        loss |-> margin_ranking_loss(batch_in.a_scores, batch_in.b_scores,
                                     batch_in.labels, args.margin),
        acc |-> compute_accuracy(batch_in.a_scores, batch_in.b_scores,
                                 batch_in.labels)]
  /\ pc' = "unit_done"
  /\ UNCHANGED metricFrame

\* the loss and the accuracy evaluate computes on a batch, for the per-epoch
\* validation and for the final evaluation that goes into the metadata:
\* evaluate has no margin parameter and calls margin_ranking_loss without one
EvaluateBatchMetrics ==
  /\ pc = "unit_metric"
  /\ metric_out' =
       [site |-> "evaluate",
        loss |-> margin_ranking_loss(batch_in.a_scores, batch_in.b_scores,
                                     batch_in.labels, DEFAULT_MARGIN),
        acc |-> compute_accuracy(batch_in.a_scores, batch_in.b_scores,
                                 batch_in.labels)]
  /\ pc' = "unit_done"
  /\ UNCHANGED metricFrame

NextMetrics ==
  \/ TrainBatchMetrics
  \/ EvaluateBatchMetrics

SpecMetrics == InitMetrics /\ [][NextMetrics]_vars

\* max(0, margin - y * d) of sample i, d = score_a - score_b
HingeAt(i, margin) ==
  LET d == batch_in.a_scores[i] - batch_in.b_scores[i]
      v == margin - batch_in.labels[i] * d
  IN IF v >= 0 THEN v ELSE 0

RECURSIVE HingeSum(_, _)
HingeSum(n, margin) == IF n = 0 THEN 0 ELSE HingeAt(n, margin) + HingeSum(n - 1, margin)

\* C11: every loss computed on a batch, in training and in evaluation, is the
\* batch mean of max(0, margin - y * d) with margin the configured args.margin.
C11_LossUsesConfiguredMargin ==
  metric_out.site # "none"
    => metric_out.loss.num * Len(batch_in.labels)
         = HingeSum(Len(batch_in.labels), args.margin) * metric_out.loss.den

Sign(x) == IF x > 0 THEN 1 ELSE IF x < 0 THEN -1 ELSE 0

SignAgrees(i) ==
  Sign(batch_in.a_scores[i] - batch_in.b_scores[i]) = Sign(batch_in.labels[i])

\* C12: the accuracy computed on a batch is the fraction of its samples with
\* sign(score_a - score_b) = sign(label).
C12_AccuracyIsSignAgreement ==
  metric_out.site # "none"
    => metric_out.acc.num * Len(batch_in.labels)
         = Cardinality({i \in 1..Len(batch_in.labels) : SignAgrees(i)})
             * metric_out.acc.den

====
